---- MODULE Spec2Model ----
(***************************************************************************)
(* Model of app.py of BugFix AI: parse_ai_response (the reply parser) and  *)
(* the analysis branch of the Streamlit script that calls it and renders   *)
(* the parsed sections.                                                    *)
(*                                                                         *)
(* A reply is a sequence of tokens; every token is the literal piece of    *)
(* text it stands for, so a reply is the concatenation of its tokens.  The *)
(* tokens are chosen so that no heading, phrase or fence can arise across  *)
(* a token boundary, which makes matching on tokens the same as matching   *)
(* on characters.                                                          *)
(***************************************************************************)
EXTENDS Integers, Sequences, FiniteSets

VARIABLES response_text, parts, pc, sections, parsing_successful, ui

vars == <<response_text, parts, pc, sections, parsing_successful, ui>>

(***************************************************************************)
(* Bounds                                                                  *)
(***************************************************************************)
\* longest reply of the exhaustive part of the input space
MaxLen == 3

(***************************************************************************)
(* Tokens                                                                  *)
(***************************************************************************)
NL == "\n"
SP == " "
\* the three backquotes of a code fence (written out, a backquote cannot be
\* put in a string of this module)
FENCE == "<fence>"
LETTER == "a"
OTHERCH == "+"

HeadingError == "## Error Details"
HeadingCode == "## Corrected Code"
HeadingSugg == "## Suggestions"

PhraseError == "error details"
PhraseCode == "corrected code"
PhraseSugg == "suggestions"

Headings == {HeadingError, HeadingCode, HeadingSugg,
             "## error details", "## corrected code", "## suggestions"}

Phrases == {PhraseError, PhraseCode, PhraseSugg,
            "Error Details", "Corrected Code", "Suggestions"}

Alphabet == Headings \cup Phrases \cup {NL, SP, FENCE, LETTER, OTHERCH}

\* str.lower() of one token
LowerTok(t) ==
    CASE t = "## Error Details" -> "## error details"
      [] t = "## Corrected Code" -> "## corrected code"
      [] t = "## Suggestions" -> "## suggestions"
      [] t = "Error Details" -> "error details"
      [] t = "Corrected Code" -> "corrected code"
      [] t = "Suggestions" -> "suggestions"
      [] OTHER -> t

\* str.lower() of a text
Lower(text) == [i \in 1..Len(text) |-> LowerTok(text[i])]

\* the regex class \s, and the characters str.strip() removes
IsSpace(t) == t \in {NL, SP}

\* the regex class [a-zA-Z]*: a token made of letters only
IsLetters(t) == t \in {LETTER, "suggestions", "Suggestions"}

\* phrase in token, for an already lowered token
TokHasPhrase(t, phrase) ==
    \/ t = phrase
    \/ t = "## error details" /\ phrase = PhraseError
    \/ t = "## corrected code" /\ phrase = PhraseCode
    \/ t = "## suggestions" /\ phrase = PhraseSugg

\* the phrase test with the call of lower() forgotten
PhraseInText(text, phrase) ==
    \E i \in 1..Len(text) : TokHasPhrase(text[i], phrase)

\* the test: phrase in response_text.lower()
PhraseInLower(text, phrase) ==
    \E i \in 1..Len(text) : TokHasPhrase(Lower(text)[i], phrase)

\* a heading literal of a pattern compiled with re.IGNORECASE
MatchesHeading(t, heading) == LowerTok(t) = LowerTok(heading)

Min(S) == CHOOSE m \in S : \A n \in S : m <= n
Max(S) == CHOOSE m \in S : \A n \in S : m >= n

\* str.strip()
Strip(s) ==
    LET keep == {i \in 1..Len(s) : ~IsSpace(s[i])}
    IN  IF keep = {} THEN <<>> ELSE SubSeq(s, Min(keep), Max(keep))

\* where a greedy \s* that starts at position i ends (the next position)
SkipSpace(text, i) ==
    Min({k \in i..(Len(text) + 1) : k = Len(text) + 1 \/ ~IsSpace(text[k])})

\* position of the leftmost occurrence of a heading, 0 when there is none
FirstHeading(text, heading) ==
    LET S == {i \in 1..Len(text) : MatchesHeading(text[i], heading)}
    IN  IF S = {} THEN 0 ELSE Min(S)

(***************************************************************************)
(* Values of a section                                                     *)
(***************************************************************************)
None == [none |-> TRUE, s |-> <<>>]
Str(s) == [none |-> FALSE, s |-> s]

ErrSentinel == "[Parsing Error: Could not isolate Error Details section]"
CodeNoBlockSentinel == "[Parsing Error: Found 'Corrected Code' heading but no valid code block immediately after it]"
CodeNoHeadingSentinel == "[Parsing Error: Could not find '## Corrected Code' heading]"
SuggSentinel == "[Parsing Error: Could not isolate Suggestions section]"
NoSuggPlaceholder == "[No specific suggestions provided.]"

Sentinels == {ErrSentinel, CodeNoBlockSentinel, CodeNoHeadingSentinel, SuggSentinel}

\* Python truthiness of a section value: None and "" are falsy
Truthy(v) == ~v.none /\ v.s # <<>>

\* the test: "[Parsing Error:" in v, for a string v
HasParsingError(v) == \E i \in 1..Len(v.s) : v.s[i] \in Sentinels

(***************************************************************************)
(* The three searches of parse_ai_response                                 *)
(***************************************************************************)
NoMatch == [found |-> FALSE, group |-> <<>>]
Match(g) == [found |-> TRUE, group |-> g]

\* re.search(r"## Error Details\s*(.*?)\s*(?=## Corrected Code|## Suggestions|\Z)",
\*           response_text, re.DOTALL | re.IGNORECASE)
error_match(text) ==
    LET h == FirstHeading(text, HeadingError)
        n == Len(text)
        start == SkipSpace(text, h + 1)
        AtStop(k) == \/ k = n + 1
                     \/ MatchesHeading(text[k], HeadingCode)
                     \/ MatchesHeading(text[k], HeadingSugg)
        stop == Min({j \in start..(n + 1) : AtStop(SkipSpace(text, j))})
    IN  IF h = 0 THEN NoMatch ELSE Match(SubSeq(text, start, stop - 1))

\* re.search(r"## Corrected Code\s*", response_text, re.IGNORECASE).end(),
\* as the index of the first token of the remainder; 0 when there is no match
corrected_code_heading_match(text) ==
    LET h == FirstHeading(text, HeadingCode)
    IN  IF h = 0 THEN 0 ELSE SkipSpace(text, h + 1)

\* re.search(FENCE (?:[a-zA-Z]*\n)?(.*?)\n FENCE, rest, re.DOTALL): the pattern of
\* line 69, with FENCE for its three backquotes
code_block_match(rest) ==
    LET n == Len(rest)
        opens == {p \in 1..n : rest[p] = FENCE}
        \* positions q where a newline followed by a fence starts
        Closes(from) == {q \in from..(n - 1) : rest[q] = NL /\ rest[q + 1] = FENCE}
        p == Min(opens)
        \* the optional group [a-zA-Z]*\n taken greedily
        r == Min({k \in (p + 1)..(n + 1) : k = n + 1 \/ ~IsLetters(rest[k])})
        tagged == r <= n /\ rest[r] = NL
    IN  IF opens = {} \/ Closes(p + 1) = {} THEN NoMatch
        ELSE IF tagged /\ Closes(r + 1) # {}
             THEN Match(SubSeq(rest, r + 1, Min(Closes(r + 1)) - 1))
             ELSE Match(SubSeq(rest, p + 1, Min(Closes(p + 1)) - 1))

\* re.search(r"## Suggestions\s*(.*)", response_text, re.DOTALL | re.IGNORECASE)
suggestions_match(text) ==
    LET h == FirstHeading(text, HeadingSugg)
    IN  IF h = 0 THEN NoMatch
        ELSE Match(SubSeq(text, SkipSpace(text, h + 1), Len(text)))

(***************************************************************************)
(* parse_ai_response, statement by statement.  A frame holds the locals    *)
(* sections and parsing_successful.                                        *)
(***************************************************************************)
InitFrame ==
    [sections |-> [error_details |-> None, corrected_code |-> None, suggestions |-> None],
     parsing_successful |-> TRUE]

\* the fallback with the phrase test forgotten: a sentinel whenever the
\* heading is missing
ExtractErrorDetailsNoPhraseTest(text, f) ==
    LET m == error_match(text)
    IN  IF m.found
        THEN [f EXCEPT !.sections.error_details = Str(Strip(m.group))]
        ELSE [f EXCEPT !.sections.error_details = Str(<<ErrSentinel>>),
                       !.parsing_successful = FALSE]

ExtractErrorDetails(text, f) ==
    LET m == error_match(text)
    IN  IF m.found
        THEN [f EXCEPT !.sections.error_details = Str(Strip(m.group))]
        ELSE [f EXCEPT !.sections.error_details =
                           IF PhraseInLower(text, PhraseError) THEN Str(<<ErrSentinel>>) ELSE @,
                       !.parsing_successful = FALSE]

ExtractCorrectedCode(text, f) ==
    LET e == corrected_code_heading_match(text)
        m == code_block_match(SubSeq(text, e, Len(text)))
    IN  IF e # 0
        THEN IF m.found
             THEN [f EXCEPT !.sections.corrected_code = Str(Strip(m.group))]
             ELSE [f EXCEPT !.sections.corrected_code =
                                IF PhraseInLower(text, PhraseCode)
                                THEN Str(<<CodeNoBlockSentinel>>) ELSE @,
                            !.parsing_successful = FALSE]
        ELSE [f EXCEPT !.sections.corrected_code =
                           IF PhraseInLower(text, PhraseCode)
                           THEN Str(<<CodeNoHeadingSentinel>>) ELSE @,
                       !.parsing_successful = FALSE]

\* the suggestions step with the placeholder for an empty section forgotten
ExtractSuggestionsNoPlaceholder(text, f) ==
    LET m == suggestions_match(text)
    IN  IF m.found
        THEN [f EXCEPT !.sections.suggestions = Str(Strip(m.group))]
        ELSE IF PhraseInLower(text, PhraseSugg)
             THEN [f EXCEPT !.sections.suggestions = Str(<<SuggSentinel>>)]
             ELSE f

ExtractSuggestions(text, f) ==
    LET m == suggestions_match(text)
    IN  IF m.found
        THEN IF Strip(m.group) = <<>>
             THEN [f EXCEPT !.sections.suggestions = Str(<<NoSuggPlaceholder>>)]
             ELSE [f EXCEPT !.sections.suggestions = Str(Strip(m.group))]
        ELSE IF PhraseInLower(text, PhraseSugg)
             THEN [f EXCEPT !.sections.suggestions = Str(<<SuggSentinel>>)]
             ELSE f

\* "Final check: If essential parts are missing, mark as failed."
EssentialCheck(text, f) ==
    IF /\ f.sections.error_details.none \/ f.sections.corrected_code.none
       /\ PhraseInLower(text, PhraseError) \/ PhraseInLower(text, PhraseCode)
    THEN [f EXCEPT !.parsing_successful = FALSE]
    ELSE f

\* "If all sections failed to parse AND the response wasn't empty"
NothingExtractedCheck(text, f) ==
    IF /\ text # <<>>
       /\ ~Truthy(f.sections.error_details)
       /\ ~Truthy(f.sections.corrected_code)
       /\ ~Truthy(f.sections.suggestions)
    THEN [f EXCEPT !.parsing_successful = FALSE]
    ELSE f

parse_ai_response(text) ==
    NothingExtractedCheck(text,
      EssentialCheck(text,
        ExtractSuggestions(text,
          ExtractCorrectedCode(text,
            ExtractErrorDetails(text, InitFrame)))))

(***************************************************************************)
(* The replies the generator may return                                    *)
(***************************************************************************)
\* every reply of at most MaxLen tokens
ShortReplies == UNION {[1..n -> Alphabet] : n \in 0..MaxLen}

\* what may follow the opening fence on its line
Tags == {<<>>, <<LETTER>>, <<"Suggestions">>, <<LETTER, OTHERCH>>, <<LETTER, SP>>}

\* the lines between the fence lines
Interiors == {<<LETTER>>, <<SP, LETTER, NL, OTHERCH, SP>>}

\* fenced blocks: an opening fence line, the interior lines, a closing fence
Blocks ==
    {<<FENCE>> \o tag \o <<NL>> \o body \o <<FENCE>> :
        tag \in Tags, body \in {<<>>} \cup {i \o <<NL>> : i \in Interiors}}

BeforeParts == {<<>>, <<FENCE, NL, OTHERCH, NL, FENCE, NL>>}

ErrorParts == {<<>>, <<HeadingError>>, <<HeadingError, NL, LETTER, SP, LETTER, NL, NL>>,
               <<"Error Details", NL, LETTER, NL>>}

CodeParts ==
    {<<HeadingCode>> \o gap \o b :
        gap \in {<<>>, <<NL>>}, b \in Blocks \cup {<<>>, <<LETTER>>}}

SuggParts == {<<>>, <<NL, HeadingSugg>>, <<NL, HeadingSugg, NL, LETTER, SP, OTHERCH, NL>>,
              <<NL, "Suggestions", NL, LETTER>>,
              <<NL, HeadingSugg, NL, FENCE, NL, OTHERCH, NL, FENCE>>}

\* replies that follow the template of the prompt, more or less well
TemplateReplies ==
    {b \o e \o c \o s :
        b \in BeforeParts, e \in ErrorParts, c \in CodeParts, s \in SuggParts}

Replies == ShortReplies \cup TemplateReplies

(***************************************************************************)
(* The analysis branch of the script (lines 144-238)                       *)
(***************************************************************************)
\* parsed_sections = {}
EmptyDict == [k \in {} |-> None]

\* dict.get(key, default)
Get(d, key, default) == IF key \in DOMAIN d THEN d[key] ELSE default

NoDetailsDefault == Str(<<"[No error details extracted.]">>)
NoSuggDefault == Str(<<"[No suggestions provided or extracted.]">>)

Init ==
    /\ response_text \in Replies
    /\ parts \in (IF response_text = <<>> THEN BOOLEAN ELSE {TRUE})
    /\ pc = "generate_content"
    /\ sections = EmptyDict
    /\ parsing_successful = FALSE
    /\ ui = <<>>

\* response = model.generate_content(prompt); if response.parts: the call of
\* parse_ai_response and its first statements
GenerateContent ==
    /\ pc = "generate_content"
    /\ IF parts
       THEN /\ pc' = "error_details"
            /\ sections' = InitFrame.sections
            /\ parsing_successful' = InitFrame.parsing_successful
       ELSE /\ pc' = "blocked"
            /\ UNCHANGED <<sections, parsing_successful>>
    /\ UNCHANGED <<response_text, parts, ui>>

Frame == [sections |-> sections, parsing_successful |-> parsing_successful]

ParseStep(from, to, f) ==
    /\ pc = from
    /\ pc' = to
    /\ sections' = f.sections
    /\ parsing_successful' = f.parsing_successful
    /\ UNCHANGED <<response_text, parts, ui>>

ParseErrorDetails ==
    ParseStep("error_details", "corrected_code", ExtractErrorDetails(response_text, Frame))

ParseCorrectedCode ==
    ParseStep("corrected_code", "suggestions", ExtractCorrectedCode(response_text, Frame))

ParseSuggestions ==
    ParseStep("suggestions", "essential_check", ExtractSuggestions(response_text, Frame))

ParseEssentialCheck ==
    ParseStep("essential_check", "nothing_extracted_check", EssentialCheck(response_text, Frame))

\* the last check, the return, and st.subheader("Analysis Results:")
ParseReturn ==
    /\ pc = "nothing_extracted_check"
    /\ pc' = "show_error_details"
    /\ LET f == NothingExtractedCheck(response_text, Frame)
       IN  /\ sections' = f.sections
           /\ parsing_successful' = f.parsing_successful
    /\ ui' = Append(ui, "subheader")
    /\ UNCHANGED <<response_text, parts>>

\* ui records the calls of st: the names of the functions, in order
Show(calls, to) ==
    /\ ui' = ui \o calls
    /\ pc' = to
    /\ UNCHANGED <<response_text, parts, sections, parsing_successful>>

\* the heading of a section is shown, then the test "[Parsing Error:" in None
\* raises TypeError: control passes to the except clause of line 236
Raise == Show(<<"markdown">>, "except")

ShowErrorDetails ==
    /\ pc = "show_error_details"
    /\ LET details == Get(sections, "error_details", NoDetailsDefault)
       IN  IF details.none THEN Raise
           ELSE IF HasParsingError(details)
                THEN Show(<<"markdown", "warning">>, "show_corrected_code")
           ELSE IF details = NoDetailsDefault /\ ~parsing_successful
                THEN Show(<<"markdown", "info">>, "show_corrected_code")
           ELSE IF Truthy(details)
                THEN Show(<<"markdown", "markdown">>, "show_corrected_code")
           ELSE Show(<<"markdown", "info">>, "show_corrected_code")

ShowCorrectedCode ==
    /\ pc = "show_corrected_code"
    /\ LET code == Get(sections, "corrected_code", None)
       IN  IF Truthy(code) /\ HasParsingError(code)
           THEN Show(<<"markdown", "warning">>, "show_suggestions")
           ELSE IF Truthy(code)
                THEN Show(<<"markdown", "code">>, "show_suggestions")
           ELSE IF ~parsing_successful
                THEN Show(<<"markdown", "info", "warning">>, "show_suggestions")
           ELSE Show(<<"markdown", "info">>, "show_suggestions")

ShowSuggestions ==
    /\ pc = "show_suggestions"
    /\ LET suggestions == Get(sections, "suggestions", NoSuggDefault)
       IN  IF suggestions.none THEN Raise
           ELSE IF HasParsingError(suggestions)
                THEN Show(<<"markdown", "warning">>, "show_raw")
           ELSE IF Truthy(suggestions)
                THEN Show(<<"markdown", "markdown">>, "show_raw")
           ELSE Show(<<"markdown", "info">>, "show_raw")

\* the consolidated debug output: a warning and the text area "Raw AI Response"
ShowRaw ==
    /\ pc = "show_raw"
    /\ IF ~parsing_successful /\ response_text # <<>>
       THEN Show(<<"warning", "text_area">>, "done")
       ELSE Show(<<>>, "done")

\* except Exception as e: st.error(...); st.exception(e)
Except ==
    /\ pc = "except"
    /\ Show(<<"error", "exception">>, "done")

\* the blocked or empty response: st.error(...); st.json(...)
Blocked ==
    /\ pc = "blocked"
    /\ Show(<<"error", "json">>, "done")

Next ==
    \/ GenerateContent
    \/ ParseErrorDetails
    \/ ParseCorrectedCode
    \/ ParseSuggestions
    \/ ParseEssentialCheck
    \/ ParseReturn
    \/ ShowErrorDetails
    \/ ShowCorrectedCode
    \/ ShowSuggestions
    \/ ShowRaw
    \/ Except
    \/ Blocked

Spec == Init /\ [][Next]_vars

(***************************************************************************)
(* Vocabulary of the properties: what a reply contains, read off the reply *)
(* itself and not through the searches of the parser.                      *)
(***************************************************************************)
\* parse_ai_response has returned and the script holds its result
Returned ==
    /\ parts
    /\ pc \in {"show_error_details", "show_corrected_code", "show_suggestions",
               "show_raw", "except", "done"}

IsErrorHeading(t) == t \in {"## Error Details", "## error details"}
IsCodeHeading(t) == t \in {"## Corrected Code", "## corrected code"}
IsSuggHeading(t) == t \in {"## Suggestions", "## suggestions"}
IsAnyHeading(t) == IsErrorHeading(t) \/ IsCodeHeading(t) \/ IsSuggHeading(t)

\* the positions of the tokens of a text that satisfy a test
Where(text, Test(_)) == {i \in 1..Len(text) : Test(text[i])}

IsBlank(t) == t = NL \/ t = SP
IsFence(t) == t = FENCE
IsNewline(t) == t = NL

RECURSIVE DropLeading(_)
DropLeading(s) == IF s # <<>> /\ IsBlank(Head(s)) THEN DropLeading(Tail(s)) ELSE s

RECURSIVE DropTrailing(_)
DropTrailing(s) ==
    IF s # <<>> /\ IsBlank(s[Len(s)]) THEN DropTrailing(SubSeq(s, 1, Len(s) - 1)) ELSE s

\* a text without its leading and trailing whitespace
Trimmed(s) == DropTrailing(DropLeading(s))

\* The first fenced block of a text: the first fence opens it, its line runs
\* to the next newline, and the first later fence that starts a line closes it.
\* open = 0 when the text holds no complete block.
FirstBlock(text) ==
    LET fences == Where(text, IsFence)
        open == Min(fences)
        newlines == {i \in Where(text, IsNewline) : i > open}
        eol == Min(newlines)
        closes == {q \in fences : q > eol /\ text[q - 1] = NL}
        close == Min(closes)
    IN  IF fences = {} \/ newlines = {} \/ closes = {}
        THEN [open |-> 0, tag |-> <<>>, interior |-> <<>>]
        ELSE [open |-> open,
              tag |-> SubSeq(text, open + 1, eol - 1),
              interior |-> SubSeq(text, eol + 1, close - 2)]

HasBlock(text) == FirstBlock(text).open # 0

\* the text after position i
After(text, i) == SubSeq(text, i + 1, Len(text))

\* a section value that is real text: neither unset nor a diagnostic sentinel
Located(v) == ~v.none /\ ~HasParsingError(v)

(***************************************************************************)
(* C1                                                                      *)
(***************************************************************************)
\* a reply made of the three headings in order, each once, with a non-blank
\* error text and suggestion text free of fences, and one fenced block with a
\* non-blank interior under the Corrected Code heading
WellFormed(text) ==
    LET he == Where(text, IsErrorHeading)
        hc == Where(text, IsCodeHeading)
        hs == Where(text, IsSuggHeading)
        c == Min(hc)
        g == Min(hs)
        errors == SubSeq(text, 2, c - 1)
        code == Trimmed(SubSeq(text, c + 1, g - 1))
        sugg == After(text, g)
        b == FirstBlock(code)
    IN  /\ he = {1} /\ Cardinality(hc) = 1 /\ Cardinality(hs) = 1
        /\ c < g
        /\ Trimmed(errors) # <<>> /\ Where(errors, IsFence) = {}
        /\ Trimmed(sugg) # <<>> /\ Where(sugg, IsFence) = {}
        /\ b.open = 1
        /\ Cardinality(Where(code, IsFence)) = 2
        /\ code[Len(code)] = FENCE
        /\ Trimmed(b.interior) # <<>>

\* C1: for every well-formed reply with the three headings, the three fields
\* are the trimmed interior text of their sections and success is true.
C1_WellFormedReplyParsed ==
    (Returned /\ WellFormed(response_text)) =>
        LET c == Min(Where(response_text, IsCodeHeading))
            g == Min(Where(response_text, IsSuggHeading))
        IN  /\ sections.error_details = Str(Trimmed(SubSeq(response_text, 2, c - 1)))
            /\ sections.corrected_code =
                   Str(Trimmed(FirstBlock(SubSeq(response_text, c + 1, g - 1)).interior))
            /\ sections.suggestions = Str(Trimmed(After(response_text, g)))
            /\ parsing_successful

(***************************************************************************)
(* C2                                                                      *)
(***************************************************************************)
\* C2: success is true if and only if both mandatory sections were located,
\* that is, success is false exactly when error_details or corrected_code is
\* unset or holds a diagnostic sentinel.
C2_SuccessIffBothLocated ==
    Returned =>
        (parsing_successful <=>
            (Located(sections.error_details) /\ Located(sections.corrected_code)))

(***************************************************************************)
(* C3                                                                      *)
(***************************************************************************)
\* endings that change only what the reply says about suggestions
SuggestionEndings == {<<HeadingSugg>>, <<NL, "suggestions">>, <<NL, HeadingSugg, NL, LETTER>>}

\* C3: two replies with the same error_details and corrected_code outcomes
\* get the same success flag, whatever their suggestions fields are (the
\* second reply ranges over the reply with another ending).
C3_SuggestionsNeverAffectSuccess ==
    Returned =>
        \A ending \in SuggestionEndings :
            LET other == parse_ai_response(response_text \o ending)
            IN  (/\ other.sections.error_details = sections.error_details
                 /\ other.sections.corrected_code = sections.corrected_code)
                => other.parsing_successful = parsing_successful

(***************************************************************************)
(* C4                                                                      *)
(***************************************************************************)
\* C4: for the empty reply the parser returns the three fields unset and
\* success false.
C4_EmptyReply ==
    (Returned /\ response_text = <<>>) =>
        /\ sections.error_details = None
        /\ sections.corrected_code = None
        /\ sections.suggestions = None
        /\ ~parsing_successful

C4_Witness == Returned /\ response_text = <<>> /\ pc = "show_error_details"

(***************************************************************************)
(* C5                                                                      *)
(***************************************************************************)
\* C5: with a complete fenced block before the first Corrected Code heading
\* and one after it, corrected_code is the trimmed interior of the first
\* fenced block after the heading.
C5_BlockAfterHeading ==
    LET hc == Where(response_text, IsCodeHeading)
        before == SubSeq(response_text, 1, Min(hc) - 1)
        after == After(response_text, Min(hc))
    IN  (Returned /\ hc # {} /\ HasBlock(before) /\ HasBlock(after)) =>
            sections.corrected_code = Str(Trimmed(FirstBlock(after).interior))

(***************************************************************************)
(* C6                                                                      *)
(***************************************************************************)
\* C6: when a fenced block follows the Corrected Code heading immediately,
\* whatever tag its opening fence line carries, corrected_code is exactly the
\* trimmed lines between the opening and the closing fence line: no fence
\* marker and no tag.
C6_FenceAndTagExcluded ==
    LET hc == Where(response_text, IsCodeHeading)
        after == DropLeading(After(response_text, Min(hc)))
    IN  (Returned /\ hc # {} /\ FirstBlock(after).open = 1) =>
            sections.corrected_code = Str(Trimmed(FirstBlock(after).interior))

(***************************************************************************)
(* C7                                                                      *)
(***************************************************************************)
\* the phrase "error details" in any letter case, outside a heading
IsErrorPhrase(t) == t \in {"error details", "Error Details"}

\* C7: a reply with the phrase "error details" and no Error Details heading
\* gets the diagnostic sentinel as error_details and success false.
C7_PhraseWithoutHeading ==
    (/\ Returned
     /\ Where(response_text, IsErrorPhrase) # {}
     /\ Where(response_text, IsErrorHeading) = {}) =>
        /\ sections.error_details = Str(<<ErrSentinel>>)
        /\ ~parsing_successful

\* the phrase capitalised, next to a well-formed Corrected Code section
C7_Witness ==
    /\ Returned
    /\ Where(response_text, IsErrorHeading) = {}
    /\ \E i \in 1..Len(response_text) : response_text[i] = "Error Details"
    /\ Located(sections.corrected_code)
    /\ sections.error_details = Str(<<ErrSentinel>>)

(***************************************************************************)
(* C8                                                                      *)
(***************************************************************************)
\* C8: after a parse of a non-empty reply that returned success false, the
\* rendering never aborts, and it ends with the raw reply displayed.
C8_RawReplyAlwaysShown ==
    (Returned /\ response_text # <<>> /\ ~parsing_successful) =>
        /\ pc # "except"
        /\ pc = "done" => (ui # <<>> /\ ui[Len(ui)] = "text_area")

(***************************************************************************)
(* C9                                                                      *)
(***************************************************************************)
\* the word "suggestions" in any letter case, in a heading or not
HasSuggWord(t) == IsSuggHeading(t) \/ t \in {"suggestions", "Suggestions"}

SuggestionsDone ==
    /\ parts
    /\ pc \in {"essential_check", "nothing_extracted_check"} \/ Returned

\* the four outcomes of the suggestions field
C9_Outcomes ==
    SuggestionsDone =>
        LET hs == Where(response_text, IsSuggHeading)
            rest == After(response_text, Min(hs))
        IN  sections.suggestions =
                IF hs # {}
                THEN IF Trimmed(rest) # <<>>
                     THEN Str(Trimmed(rest))
                     ELSE Str(<<NoSuggPlaceholder>>)
                ELSE IF Where(response_text, HasSuggWord) # {}
                     THEN Str(<<SuggSentinel>>)
                     ELSE None

\* C9: the suggestions field has exactly the four outcomes (trimmed text,
\* placeholder, sentinel, unset), and the suggestions step leaves the success
\* flag as it found it.
C9_SuggestionsOutcomes ==
    /\ []C9_Outcomes
    /\ [][pc = "suggestions" => parsing_successful' = parsing_successful]_vars

\* the heading with nothing but whitespace after it, in a reply parsed with
\* success so far
C9_Witness ==
    /\ pc = "essential_check"
    /\ Where(response_text, IsSuggHeading) # {}
    /\ sections.suggestions = Str(<<NoSuggPlaceholder>>)
    /\ parsing_successful

(***************************************************************************)
(* C10                                                                     *)
(***************************************************************************)
\* C10: when the text between the Corrected Code heading and the next
\* Suggestions or Error Details heading holds no fenced block, corrected_code
\* is the no-code-block sentinel and success is false, also when a fenced
\* block appears in a later section.
C10_CodeOnlyFromItsSection ==
    LET hc == Where(response_text, IsCodeHeading)
        after == After(response_text, Min(hc))
        next == {i \in 1..Len(after) : IsSuggHeading(after[i]) \/ IsErrorHeading(after[i])}
        section == IF next = {} THEN after ELSE SubSeq(after, 1, Min(next) - 1)
    IN  (Returned /\ hc # {} /\ ~HasBlock(section)) =>
            /\ sections.corrected_code = Str(<<CodeNoBlockSentinel>>)
            /\ ~parsing_successful

====
